---------------------------- MODULE Spec2Model ----------------------------
(***************************************************************************)
(* Upload submission and result pipeline of the image translation client:  *)
(* the ImageUploader component (src/src/components/ImageUploader.tsx) and  *)
(* the ApiService it calls (services/api.ts, printed in src/README.md).    *)
(*                                                                         *)
(* Execution is single-threaded and event driven.  Every action below is   *)
(* one task of the event loop (a DOM event handler or an XMLHttpRequest    *)
(* event listener) or one microtask (the continuation of an await).  A     *)
(* task is followed by all the microtasks it queued before the next task   *)
(* starts, which the guard Idle states.                                    *)
(***************************************************************************)
EXTENDS Integers, Sequences, FiniteSets, TLC

(***************************************************************************)
(* Bounds of the model.                                                    *)
(***************************************************************************)
MaxSubmissions == 2      \* submissions started in a behaviour of Spec
MaxIsolated == 1         \* submissions started in a behaviour of SpecIsolated
MaxTotal == 3            \* length of a request body, in bytes
MaxTimers == 2           \* setTimeout callbacks pending at one time

(***************************************************************************)
(* JavaScript values: null, undefined, strings and objects.                *)
(***************************************************************************)
JNull == [t |-> "null"]
JUndefined == [t |-> "undefined"]
JStr(s) == [t |-> "string", v |-> s]
JObj(fields) == [t |-> "object", v |-> fields]

Truthy(x) ==
    CASE x.t = "null" -> FALSE
      [] x.t = "undefined" -> FALSE
      [] x.t = "string" -> x.v # ""
      [] OTHER -> TRUE

\* the empty object {}
EmptyObject == JObj([n \in {} |-> n])

\* obj.name: undefined when the object has no such member
Member(obj, name) == IF name \in DOMAIN obj.v THEN obj.v[name] ELSE JUndefined

(***************************************************************************)
(* Media types, as character sequences.                                    *)
(***************************************************************************)
ImagePrefix == <<"i", "m", "a", "g", "e", "/">>
ImageWord == <<"i", "m", "a", "g", "e">>
ImagePng == <<"i", "m", "a", "g", "e", "/", "p", "n", "g">>
TextPlain == <<"t", "e", "x", "t", "/", "p", "l", "a", "i", "n">>
XImage == <<"x", "-", "i", "m", "a", "g", "e", "/", "x">>
NoType == <<>>
FileTypes == {ImagePng, TextPlain, XImage, NoType}

\* String.prototype.startsWith
StartsWith(s, p) == Len(s) >= Len(p) /\ SubSeq(s, 1, Len(p)) = p

\* String.prototype.indexOf (0-based, -1 when absent)
IndexOf(s, p) ==
    LET hits == {i \in 0..(Len(s) - Len(p)) : SubSeq(s, i + 1, i + Len(p)) = p}
    IN IF hits = {} THEN -1 ELSE CHOOSE i \in hits : \A j \in hits : i <= j

\* Math.round(n / d) for n >= 0, d > 0: halves round up
MathRound(n, d) == (2 * n + d) \div (2 * d)

(***************************************************************************)
(* The backend's answers: status line and body text.                       *)
(***************************************************************************)
Statuses == {200, 299, 300, 500}

StatusText(status) ==
    CASE status = 200 -> "OK"
      [] status = 300 -> "Multiple Choices"
      [] status = 500 -> "Internal Server Error"
      [] OTHER -> ""

BodySuccess ==
    "{\"success\":true,\"data\":{\"original_text\":\"Hola\",\"translated_text\":\"Hello\",\"source_language\":\"es\"},\"target_language\":\"en\",\"target_language_name\":\"English\"}"
BodyDetail == "{\"detail\":\"OCR engine unavailable\"}"
BodyEmptyDetail == "{\"detail\":\"\"}"
BodyNoDetail == "{\"error\":\"x\"}"
BodyNull == "null"
BodyHtml == "<html>"
BodyCatalog == "{\"languages\":{\"en\":\"English\",\"ja\":\"Japanese\"}}"
Bodies == {BodySuccess, BodyDetail, BodyEmptyDetail, BodyNoDetail, BodyNull, BodyHtml}

\* JSON.parse: the value of a well-formed text, or the SyntaxError it throws
JSONParse(text) ==
    CASE text = BodySuccess ->
           [ok |-> TRUE,
            value |-> JObj([success |-> [t |-> "boolean", v |-> TRUE],
                            data |-> JObj([original_text |-> JStr("Hola"),
                                           translated_text |-> JStr("Hello"),
                                           source_language |-> JStr("es")]),
                            target_language |-> JStr("en"),
                            target_language_name |-> JStr("English")])]
      [] text = BodyDetail ->
           [ok |-> TRUE, value |-> JObj([detail |-> JStr("OCR engine unavailable")])]
      [] text = BodyEmptyDetail ->
           [ok |-> TRUE, value |-> JObj([detail |-> JStr("")])]
      [] text = BodyNoDetail ->
           [ok |-> TRUE, value |-> JObj([error |-> JStr("x")])]
      [] text = BodyNull ->
           [ok |-> TRUE, value |-> JNull]
      [] text = BodyCatalog ->
           [ok |-> TRUE,
            value |-> JObj([languages |-> JObj([en |-> JStr("English"),
                                                ja |-> JStr("Japanese")])])]
      [] OTHER ->
           [ok |-> FALSE,
            error |-> "SyntaxError: Unexpected token < in JSON at position 0"]

(***************************************************************************)
(* ApiService.translateImage: the settlement of the promise it returns.    *)
(***************************************************************************)
Pending == [kind |-> "pending"]
Resolve(value) == [kind |-> "resolve", value |-> value]
\* reject(new Error(message))
Reject(message) == [kind |-> "reject", message |-> message]

\* variant: the share of the body still to send
RemainingPercent(loaded, total) == MathRound((total - loaded) * 100, total)

\* Math.round((event.loaded / event.total) * 100)
ProgressPercent(loaded, total) == MathRound(loaded * 100, total)

\* variant: xhr.status > 200 && xhr.status < 300
StrictSuccessStatus(status) == status > 200 /\ status < 300

\* xhr.status >= 200 && xhr.status < 300
IsSuccessStatus(status) == status >= 200 /\ status < 300

\* variant: the body of the answer is never read
ErrorDetailStatusOnly(status, statusText, parsed) ==
    Reject("HTTP " \o ToString(status) \o ": " \o statusText)

\* errorResponse.detail || 'Upload failed'; reading a member of null throws a
\* TypeError, which the listener's catch turns into the HTTP status message
ErrorDetail(status, statusText, parsed) ==
    IF parsed.t \in {"null", "undefined"}
    THEN Reject("HTTP " \o ToString(status) \o ": " \o statusText)
    ELSE LET detail == IF parsed.t = "object" THEN Member(parsed, "detail")
                       ELSE JUndefined
         IN Reject(IF Truthy(detail) THEN detail.v ELSE "Upload failed")

\* the 'load' listener
LoadOutcome(status, statusText, responseText) ==
    LET parsed == JSONParse(responseText)
    IN IF IsSuccessStatus(status)
       THEN IF parsed.ok
            THEN Resolve(parsed.value)
            ELSE Reject("Invalid response format: " \o parsed.error)
       ELSE IF parsed.ok
            THEN ErrorDetail(status, statusText, parsed.value)
            ELSE Reject("HTTP " \o ToString(status) \o ": " \o statusText)

\* the 'error' listener
ErrorOutcome == Reject("Network error occurred")

\* variant: the timeout listener rejects with the message of the error listener
TimeoutAsNetworkError == Reject("Network error occurred")

\* the 'timeout' listener
TimeoutOutcome == Reject("Request timeout")

(***************************************************************************)
(* ApiService.getLanguages: fetch either rejects (a transport error) or    *)
(* answers with a status and a body.                                       *)
(***************************************************************************)
CatalogResponses ==
    {[kind |-> "network"]}
      \cup [kind : {"http"}, status : {200, 500},
                  body : {BodyCatalog, BodyHtml, BodyNull}]

Return(value) == [kind |-> "return", value |-> value]
Throw(message) == [kind |-> "throw", message |-> message]

\* response.json() followed by data.languages; reading a member of null throws
CatalogOf(body) ==
    LET parsed == JSONParse(body)
    IN IF ~parsed.ok
       THEN Throw(parsed.error)
       ELSE IF parsed.value.t = "null"
            THEN Throw("TypeError: Cannot read properties of null")
            ELSE Return(Member(parsed.value, "languages"))

\* variant: response.ok is not looked at
GetLanguagesUnchecked(response) ==
    IF response.kind = "network"
    THEN Throw("Failed to fetch")
    ELSE CatalogOf(response.body)

\* fetch rejects on a transport error; response.ok is false outside 200..299
GetLanguages(response) ==
    IF response.kind = "network"
    THEN Throw("Failed to fetch")
    ELSE IF ~IsSuccessStatus(response.status)
         THEN Throw("Failed to fetch languages")
         ELSE CatalogOf(response.body)

(***************************************************************************)
(* ApiService.healthCheck.                                                 *)
(***************************************************************************)
JBool(b) == [t |-> "boolean", v |-> b]

\* what fetch can answer to the probe: a transport error or a status
HealthResponses == {[kind |-> "network"]} \cup [kind : {"http"}, status : 200..599]

\* variant: no try / catch around the fetch
HealthCheckUncaught(response) ==
    IF response.kind = "network"
    THEN Throw("Failed to fetch")
    ELSE Return(JBool(IsSuccessStatus(response.status)))

\* return response.ok, or false from the catch block
HealthCheck(response) ==
    IF response.kind = "network"
    THEN Return(JBool(FALSE))
    ELSE Return(JBool(IsSuccessStatus(response.status)))

(***************************************************************************)
(* The component's state (useState) and the requests in flight.  The       *)
(* dragActive flag only styles the drop zone and is left out.              *)
(***************************************************************************)
VARIABLES
    uploading,         \* useState(false)
    uploadProgress,    \* useState(0)
    selectedLanguage,  \* useState('en')
    languages,         \* useState({})
    result,            \* useState(null)
    error,             \* useState(null)
    langsPc,           \* loadLanguages: "pending" until getLanguages settles
    subs,              \* the calls of handleFileUpload that passed validation
    requests,          \* every xhr.send(), in order
    microtasks,        \* continuations queued by the running task
    overlapped,        \* some submission started while another was incomplete
    defaultPrevented,  \* e.defaultPrevented of the latest paste event
    copied,            \* useState(false)
    clipboard,         \* the text on the system clipboard
    timers,            \* pending setTimeout callbacks: the time each has left
    copyAge,           \* time since the latest copy, up to CopiedDelay
    health             \* the latest call of healthCheck: response and outcome

vars == <<uploading, uploadProgress, selectedLanguage, languages, result, error,
          langsPc, subs, requests, microtasks, overlapped, defaultPrevented,
          copied, clipboard, timers, copyAge, health>>

\* the state of the copy button and of the health probe
aside == <<copied, clipboard, timers, copyAge, health>>

\* the delay of setTimeout(() => setCopied(false), 2000), in ms
CopiedDelay == 2000

FallbackLanguages ==
    JObj([en |-> JStr("English"), es |-> JStr("Spanish"), fr |-> JStr("French"),
          de |-> JStr("German"), zh |-> JStr("Chinese"), ja |-> JStr("Japanese")])

Init ==
    /\ uploading = FALSE
    /\ uploadProgress = 0
    /\ selectedLanguage = "en"
    /\ languages = EmptyObject
    /\ result = JNull
    /\ error = JNull
    /\ langsPc = "pending"
    /\ subs = <<>>
    /\ requests = <<>>
    /\ microtasks = <<>>
    /\ overlapped = FALSE
    /\ defaultPrevented = FALSE
    /\ copied = FALSE
    /\ clipboard = JNull
    /\ timers = <<>>
    /\ copyAge = CopiedDelay
    /\ health = <<>>

\* no continuation is waiting: the event loop takes the next task
Idle == microtasks = <<>>

\* a submission whose request has had none of load, error, timeout
InFlight(i) == subs[i].phase = "sending"

\* a submission whose handleFileUpload has not run its finally block yet
Incomplete(i) == subs[i].pc # "done"

(***************************************************************************)
(* loadLanguages (mount effect) and the language select.                   *)
(***************************************************************************)
LoadLanguages(response) ==
    /\ Idle
    /\ langsPc = "pending"
    /\ LET got == GetLanguages(response)
       IN languages' = IF got.kind = "return" THEN got.value ELSE FallbackLanguages
    /\ langsPc' = "done"
    /\ UNCHANGED <<uploading, uploadProgress, selectedLanguage, result, error, subs,
                   requests, microtasks, overlapped, defaultPrevented, aside>>

\* the codes the user picks among in this model
PickedCodes == {"en", "ja"}

\* onValueChange={setSelectedLanguage}, one SelectItem per entry of languages
SelectLanguage(code) ==
    /\ Idle
    /\ languages.t = "object"
    /\ code \in DOMAIN languages.v
    /\ selectedLanguage' = code
    /\ UNCHANGED <<uploading, uploadProgress, languages, result, error, langsPc, subs,
                   requests, microtasks, overlapped, defaultPrevented, aside>>

(***************************************************************************)
(* handleFileUpload, up to its await.                                      *)
(***************************************************************************)
\* variant: file.type.includes('image')
ContainsImage(ftype) == IndexOf(ftype, ImageWord) # -1

\* file.type.startsWith('image/')
IsImageFile(ftype) == StartsWith(ftype, ImagePrefix)

\* variant: useCallback with dependency [], the closure of the first render
InitialLanguage == "en"

\* the selectedLanguage that the handleFileUpload closure of the current render
\* holds (useCallback with dependency [selectedLanguage])
CapturedLanguage == selectedLanguage

\* request body lengths: 0 stands for a length the browser cannot compute
Totals == {0, MaxTotal}

\* xhr.send(formData): translateImage issues the request
SendRequest(i, ftype, lang) ==
    requests' = Append(requests, [sub |-> i, ftype |-> ftype, lang |-> lang])

\* selected: the language selected when the event is handled; called and last:
\* whether this call's onProgress has been invoked, and the latest value passed
NewSubmission(total) ==
    [selected |-> selectedLanguage, total |-> total, loaded |-> 0,
     called |-> FALSE, last |-> 0, phase |-> "sending", response |-> <<>>,
     outcome |-> Pending, pc |-> "await"]

\* variant: the type of the file is not validated
HandleFileUploadUnchecked(ftype, cap) ==
    /\ Len(subs) < cap
    /\ uploading' = TRUE
    /\ uploadProgress' = 0
    /\ error' = JNull
    /\ result' = JNull
    /\ \E total \in Totals : subs' = Append(subs, NewSubmission(total))
    /\ SendRequest(Len(subs) + 1, ftype, CapturedLanguage)
    /\ overlapped' = (overlapped \/ \E i \in 1..Len(subs) : Incomplete(i))
    /\ UNCHANGED <<selectedLanguage, languages, langsPc, microtasks, aside>>

\* cap: the submissions a behaviour may start
HandleFileUpload(ftype, cap) ==
    IF ~IsImageFile(ftype)
    THEN /\ error' = JStr("Please select an image file")
         /\ UNCHANGED <<uploading, uploadProgress, selectedLanguage, languages, result,
                        langsPc, subs, requests, microtasks, overlapped, aside>>
    ELSE /\ Len(subs) < cap
         /\ uploading' = TRUE
         /\ uploadProgress' = 0
         /\ error' = JNull
         /\ result' = JNull
         /\ \E total \in Totals : subs' = Append(subs, NewSubmission(total))
         /\ SendRequest(Len(subs) + 1, ftype, CapturedLanguage)
         /\ overlapped' = (overlapped \/ \E i \in 1..Len(subs) : Incomplete(i))
         /\ UNCHANGED <<selectedLanguage, languages, langsPc, microtasks, aside>>

(***************************************************************************)
(* The three input channels.                                               *)
(***************************************************************************)
\* the FileList of a change or drop event
FileLists ==
    {<<>>} \cup {<<f>> : f \in FileTypes}
      \cup {<<ImagePng, TextPlain>>, <<TextPlain, ImagePng>>}

\* <input type="file" disabled={uploading} onChange={handleFileInputChange}>
HandleFileInputChange(files, cap) ==
    /\ Idle
    /\ ~uploading
    /\ IF Len(files) > 0
       THEN HandleFileUpload(files[1], cap)
       ELSE UNCHANGED vars
    /\ UNCHANGED defaultPrevented

\* onDrop of the drop zone (pointer-events-none while uploading); its
\* setDragActive(false) touches only the flag that is left out
HandleDrop(files, cap) ==
    /\ Idle
    /\ ~uploading
    /\ IF Len(files) > 0
       THEN IF IsImageFile(files[1])
            THEN HandleFileUpload(files[1], cap)
            ELSE /\ error' = JStr("Please upload an image file")
                 /\ UNCHANGED <<uploading, uploadProgress, selectedLanguage, languages,
                                result, langsPc, subs, requests, microtasks,
                                overlapped, aside>>
       ELSE UNCHANGED vars
    /\ UNCHANGED defaultPrevented

\* clipboard items: the declared type, and whether getAsFile() yields a file
ClipboardItems ==
    {[type |-> ImagePng, file |-> TRUE], [type |-> ImagePng, file |-> FALSE],
     [type |-> TextPlain, file |-> FALSE], [type |-> XImage, file |-> TRUE]}
ItemLists ==
    {<<>>} \cup {<<a>> : a \in ClipboardItems} \cup (ClipboardItems \X ClipboardItems)

\* item.type.indexOf('image') !== -1
IsImageItem(item) == IndexOf(item.type, ImageWord) # -1

\* variant: the loop has no break and keeps the last item it finds
LastImageItem(items) ==
    LET hits == {i \in 1..Len(items) : IsImageItem(items[i])}
    IN IF hits = {} THEN 0 ELSE CHOOSE i \in hits : \A j \in hits : i >= j

\* the index of the item the loop of handlePaste stops at, 0 when it finds none
FirstImageItem(items) ==
    LET hits == {i \in 1..Len(items) : IsImageItem(items[i])}
    IN IF hits = {} THEN 0 ELSE CHOOSE i \in hits : \A j \in hits : i <= j

\* document 'paste' listener: e.preventDefault() when the loop finds an item,
\* handleFileUpload when getAsFile() yields its file (whose type is the item's)
HandlePaste(items, cap) ==
    /\ Idle
    /\ LET i == FirstImageItem(items)
       IN /\ defaultPrevented' = (i # 0)
          /\ IF i # 0 /\ items[i].file
             THEN HandleFileUpload(items[i].type, cap)
             ELSE UNCHANGED <<uploading, uploadProgress, selectedLanguage, languages,
                              result, error, langsPc, subs, requests, microtasks,
                              overlapped, aside>>

(***************************************************************************)
(* The events of one XMLHttpRequest, and the listeners translateImage      *)
(* registers for them.                                                     *)
(***************************************************************************)
\* variant: onProgress is kept in a static field that every call overwrites,
\* so that the latest call's callback gets the progress of every request
XhrProgressShared(i, loaded) ==
    /\ Idle
    /\ i \in 1..Len(subs)
    /\ InFlight(i)
    /\ loaded \in subs[i].loaded..subs[i].total
    /\ subs[i].total # 0
    /\ LET progress == ProgressPercent(loaded, subs[i].total)
           latest == Len(subs)
       IN /\ uploadProgress' = progress
          /\ subs' = [[subs EXCEPT ![i].loaded = loaded]
                         EXCEPT ![latest].called = TRUE, ![latest].last = progress]
    /\ UNCHANGED <<uploading, selectedLanguage, languages, result, error, langsPc,
                   requests, microtasks, overlapped, defaultPrevented, aside>>

\* xhr.upload 'progress': the browser reports the bytes sent so far, never
\* fewer than before and never more than the body length
XhrProgress(i, loaded) ==
    /\ Idle
    /\ i \in 1..Len(subs)
    /\ InFlight(i)
    /\ loaded \in subs[i].loaded..subs[i].total
    /\ LET lengthComputable == subs[i].total # 0
       IN IF lengthComputable
          THEN LET progress == ProgressPercent(loaded, subs[i].total)
               IN /\ uploadProgress' = progress
                  /\ subs' = [subs EXCEPT ![i].loaded = loaded,
                                          ![i].called = TRUE,
                                          ![i].last = progress]
          ELSE UNCHANGED <<uploadProgress, subs>>
    /\ UNCHANGED <<uploading, selectedLanguage, languages, result, error, langsPc,
                   requests, microtasks, overlapped, defaultPrevented, aside>>

\* the request is over: the promise settles and the awaiting handleFileUpload
\* is queued; the transfer counters of the finished request are dropped
Settle(i, phase, response, outcome) ==
    /\ subs' = [subs EXCEPT ![i] = [@ EXCEPT !.phase = phase,
                                             !.response = response,
                                             !.outcome = outcome,
                                             !.pc = "queued",
                                             !.total = 0, !.loaded = 0,
                                             !.called = FALSE, !.last = 0]]
    /\ microtasks' = Append(microtasks, i)
    /\ UNCHANGED <<uploading, uploadProgress, selectedLanguage, languages, result,
                   error, langsPc, requests, overlapped, defaultPrevented, aside>>

XhrLoad(i, status, body) ==
    /\ Idle
    /\ i \in 1..Len(subs)
    /\ InFlight(i)
    /\ Settle(i, "load", <<status, body>>,
              LoadOutcome(status, StatusText(status), body))

XhrError(i) ==
    /\ Idle
    /\ i \in 1..Len(subs)
    /\ InFlight(i)
    /\ Settle(i, "error", <<>>, ErrorOutcome)

\* variant: xhr.timeout is left at 0, and no timeout event ever occurs
XhrTimeoutNever(i) ==
    /\ FALSE
    /\ UNCHANGED vars

XhrTimeout(i) ==
    /\ Idle
    /\ i \in 1..Len(subs)
    /\ InFlight(i)
    /\ Settle(i, "timeout", <<>>, TimeoutOutcome)

(***************************************************************************)
(* handleFileUpload after its await: try / catch / finally.                *)
(***************************************************************************)
\* variant: the two resets sit at the end of the try block, not in finally
ResumeWithoutFinally(i) ==
    /\ microtasks # <<>>
    /\ i = Head(microtasks)
    /\ microtasks' = Tail(microtasks)
    /\ IF subs[i].outcome.kind = "resolve"
       THEN /\ result' = subs[i].outcome.value
            /\ uploading' = FALSE
            /\ uploadProgress' = 0
            /\ UNCHANGED error
       ELSE /\ error' = JStr(subs[i].outcome.message)
            /\ UNCHANGED <<result, uploading, uploadProgress>>
    /\ subs' = [subs EXCEPT ![i] = [@ EXCEPT !.pc = "done", !.response = <<>>,
                                             !.outcome = Pending]]
    /\ UNCHANGED <<selectedLanguage, languages, langsPc, requests, overlapped,
                   defaultPrevented, aside>>

\* variant: the try block also calls setError(null) and the catch block also
\* calls setResult(null)
ResumeAppliesBoth(i) ==
    /\ microtasks # <<>>
    /\ i = Head(microtasks)
    /\ microtasks' = Tail(microtasks)
    /\ IF subs[i].outcome.kind = "resolve"
       THEN /\ result' = subs[i].outcome.value
            /\ error' = JNull
       ELSE /\ error' = JStr(subs[i].outcome.message)
            /\ result' = JNull
    /\ uploading' = FALSE
    /\ uploadProgress' = 0
    /\ subs' = [subs EXCEPT ![i] = [@ EXCEPT !.pc = "done", !.response = <<>>,
                                             !.outcome = Pending]]
    /\ UNCHANGED <<selectedLanguage, languages, langsPc, requests, overlapped,
                   defaultPrevented, aside>>

Resume(i) ==
    /\ microtasks # <<>>
    /\ i = Head(microtasks)
    /\ microtasks' = Tail(microtasks)
    /\ IF subs[i].outcome.kind = "resolve"
       THEN /\ result' = subs[i].outcome.value
            /\ UNCHANGED error
       ELSE /\ error' = JStr(subs[i].outcome.message)
            /\ UNCHANGED result
    /\ uploading' = FALSE
    /\ uploadProgress' = 0
    /\ subs' = [subs EXCEPT ![i] = [@ EXCEPT !.pc = "done", !.response = <<>>,
                                             !.outcome = Pending]]
    /\ UNCHANGED <<selectedLanguage, languages, langsPc, requests, overlapped,
                   defaultPrevented, aside>>

(***************************************************************************)
(* The copy button, its timers, and the passing of time.                   *)
(***************************************************************************)
\* obj?.name
Optional(obj, name) == IF obj.t = "object" THEN Member(obj, name) ELSE JUndefined

\* result?.data?.translated_text
TranslatedText(r) == Optional(Optional(r, "data"), "translated_text")

\* the component's state apart from the copy button's
page == <<uploading, uploadProgress, selectedLanguage, languages, result, error,
          langsPc, subs, requests, microtasks, overlapped, defaultPrevented>>

\* onClick={handleCopyText}; written: navigator.clipboard.writeText resolves
HandleCopyText(written) ==
    /\ Idle
    /\ Truthy(TranslatedText(result))
    /\ Len(timers) < MaxTimers
    /\ IF written
       THEN /\ clipboard' = TranslatedText(result)
            /\ copied' = TRUE
            /\ timers' = Append(timers, CopiedDelay)
            /\ copyAge' = 0
       ELSE UNCHANGED <<clipboard, copied, timers, copyAge>>
    /\ UNCHANGED <<page, health>>

\* the callback of the oldest setTimeout, when its delay has passed
TimerFires ==
    /\ Idle
    /\ timers # <<>>
    /\ Head(timers) = 0
    /\ copied' = FALSE
    /\ timers' = Tail(timers)
    /\ UNCHANGED <<clipboard, copyAge, page, health>>

\* the steps in which time passes
TimeSteps == {CopiedDelay \div 2, CopiedDelay}

\* time passes by d, no further than the next timer that is due
Tick(d) ==
    /\ Idle
    /\ timers # <<>> \/ copyAge < CopiedDelay
    /\ \A k \in 1..Len(timers) : timers[k] >= d
    /\ timers' = [k \in 1..Len(timers) |-> timers[k] - d]
    /\ copyAge' = IF copyAge + d > CopiedDelay THEN CopiedDelay ELSE copyAge + d
    /\ UNCHANGED <<copied, clipboard, page, health>>

\* a caller of ApiService.healthCheck
CallHealthCheck(response) ==
    /\ health' = <<response, HealthCheck(response)>>
    /\ UNCHANGED <<copied, clipboard, timers, copyAge, page>>

Next ==
    \/ \E response \in CatalogResponses : LoadLanguages(response)
    \/ \E code \in PickedCodes : SelectLanguage(code)
    \/ \E files \in FileLists : HandleFileInputChange(files, MaxSubmissions)
    \/ \E files \in FileLists : HandleDrop(files, MaxSubmissions)
    \/ \E items \in ItemLists : HandlePaste(items, MaxSubmissions)
    \/ \E i \in 1..MaxSubmissions, loaded \in 0..MaxTotal : XhrProgress(i, loaded)
    \/ \E i \in 1..MaxSubmissions, status \in Statuses, body \in Bodies :
           XhrLoad(i, status, body)
    \/ \E i \in 1..MaxSubmissions : XhrError(i)
    \/ \E i \in 1..MaxSubmissions : XhrTimeout(i)
    \/ \E i \in 1..MaxSubmissions : Resume(i)

\* behaviours in which submissions may overlap
Spec == Init /\ [][Next]_vars

NextIsolated ==
    \/ \E response \in CatalogResponses : LoadLanguages(response)
    \/ \E code \in PickedCodes : SelectLanguage(code)
    \/ \E files \in FileLists : HandleFileInputChange(files, MaxIsolated)
    \/ \E files \in FileLists : HandleDrop(files, MaxIsolated)
    \/ \E items \in ItemLists : HandlePaste(items, MaxIsolated)
    \/ \E i \in 1..MaxIsolated, loaded \in 0..MaxTotal : XhrProgress(i, loaded)
    \/ \E i \in 1..MaxIsolated, status \in Statuses, body \in Bodies :
           XhrLoad(i, status, body)
    \/ \E i \in 1..MaxIsolated : XhrError(i)
    \/ \E i \in 1..MaxIsolated : XhrTimeout(i)
    \/ \E i \in 1..MaxIsolated : Resume(i)

\* the same operations with the smaller bound MaxIsolated on the submissions
SpecIsolated == Init /\ [][NextIsolated]_vars

\* a well-formed answer and a malformed one
OverlapBodies == {BodySuccess, BodyHtml}

\* the three input channels, and requests that end without progress events
NextChannels ==
    \/ \E files \in FileLists : HandleFileInputChange(files, MaxIsolated)
    \/ \E files \in FileLists : HandleDrop(files, MaxIsolated)
    \/ \E items \in ItemLists : HandlePaste(items, MaxIsolated)
    \/ \E i \in 1..MaxIsolated, status \in Statuses, body \in Bodies :
           XhrLoad(i, status, body)
    \/ \E i \in 1..MaxIsolated : XhrError(i)
    \/ \E i \in 1..MaxIsolated : XhrTimeout(i)
    \/ \E i \in 1..MaxIsolated : Resume(i)

SpecChannels == Init /\ [][NextChannels]_vars

\* one submission at a time, and the copy button
NextCopy ==
    \/ \E files \in FileLists : HandleFileInputChange(files, MaxIsolated)
    \/ \E files \in FileLists : HandleDrop(files, MaxIsolated)
    \/ \E items \in ItemLists : HandlePaste(items, MaxIsolated)
    \/ \E i \in 1..MaxIsolated, status \in Statuses, body \in Bodies :
           XhrLoad(i, status, body)
    \/ \E i \in 1..MaxIsolated : XhrError(i)
    \/ \E i \in 1..MaxIsolated : Resume(i)
    \/ \E written \in BOOLEAN : HandleCopyText(written)
    \/ TimerFires
    \/ \E d \in TimeSteps : Tick(d)

SpecCopy == Init /\ [][NextCopy]_vars

\* images pasted one after another, whose requests may overlap
PastedImages == {<<[type |-> ImagePng, file |-> TRUE]>>}

NextOverlap ==
    \/ \E items \in PastedImages : HandlePaste(items, MaxSubmissions)
    \/ \E i \in 1..MaxSubmissions, loaded \in 0..MaxTotal : XhrProgress(i, loaded)
    \/ \E i \in 1..MaxSubmissions, status \in Statuses, body \in OverlapBodies :
           XhrLoad(i, status, body)
    \/ \E i \in 1..MaxSubmissions : XhrError(i)
    \/ \E i \in 1..MaxSubmissions : XhrTimeout(i)
    \/ \E i \in 1..MaxSubmissions : Resume(i)

SpecOverlap == Init /\ [][NextOverlap]_vars

\* the timeout of every request runs out unless the request ends before, and
\* a queued continuation runs
Fairness ==
    \A i \in 1..MaxSubmissions : WF_vars(XhrTimeout(i)) /\ WF_vars(Resume(i))

FairSpecOverlap == SpecOverlap /\ Fairness

\* the health probe alone
NextHealth == \E response \in HealthResponses : CallHealthCheck(response)

SpecHealth == Init /\ [][NextHealth]_vars

(***************************************************************************)
(* Properties.  A completion step of submission i is the step in which     *)
(* the continuation of its handleFileUpload runs (Resume).                 *)
(***************************************************************************)
Completes(i) == subs[i].pc = "queued" /\ subs'[i].pc = "done"

Submissions == 1..Len(subs)

\* C1: a file whose type does not start with 'image/' that comes through the
\* file picker or through a drop issues no request and sets the validation
\* message of its channel.
C1_NonImageRejected ==
    [][\A files \in FileLists :
         (Len(files) > 0 /\ ~StartsWith(files[1], ImagePrefix)) =>
            /\ HandleFileInputChange(files, MaxSubmissions) =>
                  /\ requests' = requests
                  /\ error' = JStr("Please select an image file")
            /\ HandleDrop(files, MaxSubmissions) =>
                  /\ requests' = requests
                  /\ error' = JStr("Please upload an image file")]_vars

C1_Witness ==
    /\ error = JStr("Please upload an image file")
    /\ requests = <<>>

\* C2: every accepted image event has issued exactly one request, which
\* carries the language that was selected when the event was handled; no
\* later step (whatever the outcome) issues another one.
C2_OneRequestPerSubmission ==
    /\ Len(requests) = Len(subs)
    /\ \A i \in 1..Len(requests) :
          /\ requests[i].sub = i
          /\ requests[i].lang = subs[i].selected
          /\ StartsWith(requests[i].ftype, ImagePrefix)

C2_Witness ==
    \E i \in Submissions :
        /\ subs[i].pc = "done"
        /\ subs[i].phase = "error"
        /\ requests[i].lang = "ja"
        /\ Len(requests) = Len(subs)

\* C3: an error message and a result are never displayed together.
C3_ErrorOrResult == ~(Truthy(error) /\ Truthy(result))

\* what a promise outcome alone would display
DisplayOf(outcome) ==
    IF outcome.kind = "resolve"
    THEN [result |-> outcome.value, error |-> JNull]
    ELSE [result |-> JNull, error |-> JStr(outcome.message)]

ValidationMessages ==
    {JStr("Please select an image file"), JStr("Please upload an image file")}

\* C4: when submissions have overlapped and the last of them completes, the
\* displayed result and error are those of its outcome alone (no validation
\* message being on display).
C4_LastCompletedWins ==
    [][\A i \in Submissions :
         (/\ Completes(i)
          /\ overlapped
          /\ error \notin ValidationMessages
          /\ \A j \in Submissions \ {i} : subs[j].pc = "done")
         => [result |-> result', error |-> error'] = DisplayOf(subs[i].outcome)]_vars

\* C5: the values one call passes to onProgress never decrease, and each is
\* an integer in 0..100 within one half of 100 * loaded / total.
C5_ProgressMonotone ==
    [][\A i \in Submissions :
         (InFlight(i) /\ subs'[i].phase = "sending" /\ subs'[i].called) =>
            /\ subs'[i].last \in 0..100
            /\ subs[i].called => subs'[i].last >= subs[i].last
            /\ 2 * subs'[i].total * subs'[i].last - 200 * subs'[i].loaded
                 \in (0 - subs'[i].total + 1)..subs'[i].total]_vars

C5_Witness ==
    \E i \in Submissions :
        subs[i].called /\ subs[i].last > 0 /\ subs[i].last < 100

\* C6: the displayed progress is 0 when a submission starts and when one
\* ends, and does not decrease while a submission is under way.
C6_ProgressPerSubmission ==
    [][/\ Len(subs') > Len(subs) => uploadProgress' = 0
       /\ \A i \in Submissions :
             /\ Completes(i) => uploadProgress' = 0
             /\ (Incomplete(i) /\ subs'[i].pc # "done") =>
                   uploadProgress' >= uploadProgress]_vars

\* C7: a request that timed out fails with 'Request timeout', and once it has
\* timed out its onProgress is not invoked again.
C7_Timeout ==
    [][\A i \in Submissions :
         subs[i].phase = "timeout" =>
            /\ Completes(i) => error' = JStr("Request timeout")
            /\ ~subs'[i].called
            /\ subs[i].pc = "queued" => Completes(i)]_vars

C7_Timeout_Witness ==
    \E i \in Submissions :
        /\ subs[i].phase = "timeout"
        /\ subs[i].pc = "done"
        /\ error = JStr("Request timeout")

\* the answer to submission i is an HTTP status outside [200,300)
FailureStatus(i) ==
    /\ subs[i].phase = "load"
    /\ subs[i].response[1] \notin 200..299

\* the answer to submission i is an HTTP status in [200,300)
SuccessStatus(i) ==
    /\ subs[i].phase = "load"
    /\ subs[i].response[1] \in 200..299

HttpMessage(i) ==
    JStr("HTTP " \o ToString(subs[i].response[1]) \o ": "
           \o StatusText(subs[i].response[1]))

\* an error envelope: an object with a string member detail
IsEnvelope(value) ==
    /\ value.t = "object"
    /\ "detail" \in DOMAIN value.v
    /\ value.v.detail.t = "string"

\* C8 as stated: on a status outside [200,300) the displayed reason is the
\* detail of the JSON envelope, or the HTTP status message when the body is
\* not JSON; the submission sets no result.
C8_AsStated ==
    [][\A i \in Submissions :
         (Completes(i) /\ FailureStatus(i)) =>
            LET parsed == JSONParse(subs[i].response[2])
            IN /\ (parsed.ok /\ IsEnvelope(parsed.value)) =>
                     error' = parsed.value.v.detail
               /\ ~parsed.ok => error' = HttpMessage(i)
               /\ result' = result]_vars

\* C8 amended: the detail is displayed when it is a non-empty string; an empty
\* or missing detail displays 'Upload failed'; a body that is not JSON, or is
\* the JSON null, displays the HTTP status message.
C8_ErrorReason ==
    [][\A i \in Submissions :
         (Completes(i) /\ FailureStatus(i)) =>
            LET parsed == JSONParse(subs[i].response[2])
            IN /\ (parsed.ok /\ IsEnvelope(parsed.value)
                     /\ parsed.value.v.detail.v # "") =>
                     error' = parsed.value.v.detail
               /\ (parsed.ok /\ IsEnvelope(parsed.value)
                     /\ parsed.value.v.detail.v = "") =>
                     error' = JStr("Upload failed")
               /\ (parsed.ok /\ parsed.value.t = "object"
                     /\ "detail" \notin DOMAIN parsed.value.v) =>
                     error' = JStr("Upload failed")
               /\ (~parsed.ok \/ parsed.value = JNull) => error' = HttpMessage(i)
               /\ result' = result]_vars

C8_Witness ==
    \E i \in Submissions :
        /\ subs[i].pc = "done"
        /\ subs[i].phase = "load"
        /\ error = JStr("OCR engine unavailable")
        /\ result = JNull

\* C9: on a status in [200,300) a well-formed body becomes the result (and is
\* displayed when it has the success shape); a malformed body sets the error
\* 'Invalid response format: ' followed by the parse error, and no result.
C9_SuccessBody ==
    [][\A i \in Submissions :
         (Completes(i) /\ SuccessStatus(i)) =>
            LET parsed == JSONParse(subs[i].response[2])
            IN IF parsed.ok
               THEN /\ result' = parsed.value
                    /\ error' = error
                    /\ subs[i].response[2] = BodySuccess => Truthy(result')
               ELSE /\ error' = JStr("Invalid response format: " \o parsed.error)
                    /\ result' = result]_vars

C9_Witness ==
    \E i \in Submissions :
        /\ subs[i].pc = "done"
        /\ subs[i].phase = "load"
        /\ result = JSONParse(BodySuccess).value
        /\ error = JNull

\* submission i has failed on the network path
NetworkPathFailure(i) ==
    \/ subs[i].phase \in {"error", "timeout"}
    \/ FailureStatus(i)
    \/ SuccessStatus(i) /\ ~JSONParse(subs[i].response[2]).ok

\* C10: the completion of a failed submission displays a non-empty error
\* string ('Network error occurred' for a transport error), sets uploading to
\* false and the progress to 0, and leaves the file input enabled.
C10_FailureHandled ==
    [][\A i \in Submissions :
         (subs[i].pc = "queued" /\ NetworkPathFailure(i)) =>
            /\ Completes(i)
            /\ error'.t = "string" /\ error'.v # ""
            /\ subs[i].phase = "error" => error' = JStr("Network error occurred")
            /\ ~uploading'
            /\ uploadProgress' = 0]_vars

C10_Witness ==
    \E i \in Submissions :
        /\ subs[i].pc = "done"
        /\ subs[i].phase = "error"
        /\ error = JStr("Network error occurred")
        /\ ~uploading
        /\ uploadProgress = 0

\* a catalog fetch that fails: a transport error, a status outside [200,300),
\* or a body that is not JSON
CatalogFailure(response) ==
    \/ response.kind = "network"
    \/ response.status \notin 200..299
    \/ ~JSONParse(response.body).ok

\* C11: when the catalog fetch fails, the languages become exactly the six
\* fallback entries, the selection is 'en', and the error on display is not
\* touched.
C11_CatalogFallback ==
    [][\A response \in CatalogResponses :
         (CatalogFailure(response) /\ LoadLanguages(response)) =>
            /\ languages'.t = "object"
            /\ DOMAIN languages'.v = {"en", "es", "fr", "de", "zh", "ja"}
            /\ languages'.v.en = JStr("English")
            /\ languages'.v.es = JStr("Spanish")
            /\ languages'.v.fr = JStr("French")
            /\ languages'.v.de = JStr("German")
            /\ languages'.v.zh = JStr("Chinese")
            /\ languages'.v.ja = JStr("Japanese")
            /\ selectedLanguage' = "en"
            /\ error' = error]_vars

C11_Witness ==
    /\ langsPc = "done"
    /\ languages.t = "object"
    /\ DOMAIN languages.v = {"en", "es", "fr", "de", "zh", "ja"}
    /\ selectedLanguage = "en"
    /\ error = JNull

AllComplete == \A i \in Submissions : ~Incomplete(i)

\* C12: every submission that has been issued eventually completes, uploading
\* is false whenever no submission is incomplete, and so uploading always
\* eventually returns to false.
C12_EventuallyCompletes ==
    /\ \A i \in 1..MaxSubmissions :
          (Len(subs) >= i) ~> (Len(subs) >= i /\ subs[i].pc = "done")
    /\ [](AllComplete => ~uploading)
    /\ uploading ~> ~uploading

C12_Witness ==
    /\ Len(subs) > 1
    /\ overlapped
    /\ AllComplete
    /\ ~uploading

\* C13: the promise of a submission settles once, its outcome is applied once,
\* as one update of the result or one update of the error, and a completed
\* submission never changes again.
C13_OneOutcome ==
    [][\A i \in Submissions :
         /\ subs[i].pc = "done" => subs'[i] = subs[i]
         /\ subs[i].outcome # Pending =>
               \/ subs'[i].outcome = subs[i].outcome
               \/ Completes(i)
         /\ (subs[i].pc = "await" /\ subs'[i].pc # "await") =>
               /\ subs'[i].pc = "queued"
               /\ subs'[i].outcome # Pending
         /\ Completes(i) =>
               IF subs[i].outcome.kind = "resolve"
               THEN result' = subs[i].outcome.value /\ error' = error
               ELSE error' = JStr(subs[i].outcome.message) /\ result' = result]_vars

C13_Witness ==
    \E i, j \in Submissions :
        /\ subs[i].pc = "done" /\ subs[i].phase = "timeout"
        /\ subs[j].pc = "done" /\ subs[j].phase = "load"
        /\ Truthy(result)
        /\ error = JStr("Request timeout")

\* C14: a copy puts the displayed translated text on the clipboard and sets
\* copied; copied is set for as long as less than 2000 ms have passed since
\* the latest copy, and reverts only when 2000 ms have passed since it (the
\* instant of a copy itself, when an earlier timer may be due, set aside).
C14_CopiedFor2000 ==
    [][/\ HandleCopyText(TRUE) =>
             /\ clipboard' = result.v.data.v.translated_text
             /\ copied'
       /\ (copyAge' > 0 /\ copyAge' < CopiedDelay) => copied'
       /\ (copied /\ ~copied' /\ copyAge > 0) => copyAge = CopiedDelay]_vars

\* C15: healthCheck returns a boolean, true exactly for a status in [200,300),
\* and false for a transport error.
C15_HealthCheck ==
    health # <<>> =>
        /\ health[2].kind = "return"
        /\ health[2].value.t = "boolean"
        /\ health[2].value.v <=>
              (health[1].kind = "http" /\ health[1].status \in 200..299)

C15_Witness ==
    /\ health # <<>>
    /\ health[1].kind = "network"
    /\ health[2] = [kind |-> "return", value |-> [t |-> "boolean", v |-> FALSE]]

\* C16: every request carries a file whose type starts with 'image/', and a
\* paste none of whose items has such a type issues no request.
C16_OnlyImagesSent ==
    [][/\ \A k \in 1..Len(requests') : StartsWith(requests'[k].ftype, ImagePrefix)
       /\ \A items \in ItemLists :
             (/\ HandlePaste(items, MaxSubmissions)
              /\ \A k \in 1..Len(items) : ~StartsWith(items[k].type, ImagePrefix))
             => /\ requests' = requests
                /\ subs' = subs]_vars

C16_Witness ==
    /\ defaultPrevented
    /\ error = JStr("Please select an image file")
    /\ requests = <<>>
    /\ ~uploading

\* C17: a paste is intercepted exactly when some item's type contains 'image';
\* without such an item nothing else changes; otherwise at most one request is
\* issued, and only for the first such item.
C17_PasteIntercepted ==
    [][\A items \in ItemLists :
         HandlePaste(items, MaxSubmissions) =>
            LET image == {k \in 1..Len(items) : IndexOf(items[k].type, ImageWord) # -1}
            IN /\ defaultPrevented' <=> image # {}
               /\ image = {} => UNCHANGED <<uploading, uploadProgress, result, error,
                                            subs, requests, microtasks>>
               /\ Len(requests') <= Len(requests) + 1
               /\ Len(requests') > Len(requests) =>
                     \E k \in image :
                         /\ \A j \in image : k <= j
                         /\ items[k].file
                         /\ requests'[Len(requests')].ftype = items[k].type]_vars

C17_Witness ==
    /\ defaultPrevented
    /\ Len(requests) = 1
    /\ uploading

\* C18: an event of one request changes the state of that call only, and the
\* promise of a call settles with the outcome of its own request's answer.
C18_Reentrant ==
    [][\A i \in Submissions :
         LET others == \A j \in Submissions \ {i} : subs'[j] = subs[j]
         IN /\ \A loaded \in 0..MaxTotal : XhrProgress(i, loaded) => others
            /\ \A status \in Statuses, body \in Bodies :
                  XhrLoad(i, status, body) =>
                     /\ others
                     /\ subs'[i].outcome = LoadOutcome(status, StatusText(status), body)
            /\ XhrError(i) => others /\ subs'[i].outcome = ErrorOutcome
            /\ XhrTimeout(i) => others /\ subs'[i].outcome = TimeoutOutcome
            /\ subs'[i].called =>
                  subs'[i].last = MathRound(100 * subs'[i].loaded, subs'[i].total)]_vars

C18_Witness ==
    \E i, j \in Submissions :
        /\ InFlight(i) /\ subs[i].called /\ subs[i].last = 100
        /\ InFlight(j) /\ subs[j].called /\ subs[j].last < 100

\* C19: uploading is true while any submission is incomplete.
C19_UploadingCoversRequests ==
    \A i \in Submissions : Incomplete(i) => uploading

====
